---- MODULE Spec2Model ----
(***************************************************************************)
(* Minimum description length encoders of scedar/eda/mdl.py:               *)
(* MultinomialMdl, GKdeMdl and ZeroIGKdeMdl.                               *)
(*                                                                         *)
(* Numbers.  A sample value is an integer k that stands for the float      *)
(* k / Den (Den is a power of two, so k / Den and (k / Den) * 100 are      *)
(* exact in binary floating point).  A description length is a sum of      *)
(* integer multiples of logarithms of positive rationals, so it is kept    *)
(* as the rational it is the logarithm of: [num |-> a, den |-> b] stands   *)
(* for log(a / b), in lowest terms; num = 0 stands for log(0) = -inf.      *)
(* Adding two lengths multiplies the rationals, c * log(r) is log(r ^ c).  *)
(***************************************************************************)
EXTENDS Integers, Sequences, FiniteSets

\* ----------------------------------------------------------------- bounds
MaxLen == 3
MaxQLen == 2
MaxVal == 3
MaxWrites == 1

\* Denominator of the sample values: value k stands for k / Den.
Den == 2 * 2 * 2 * 2 * 2 * 2 * 2

Values == 0..MaxVal

RECURSIVE SeqsUpTo(_, _)
SeqsUpTo(S, n) ==
    IF n = 0 THEN {<<>>}
    ELSE LET shorter == SeqsUpTo(S, n - 1)
         IN  shorter \cup {Append(s, v) : s \in {t \in shorter : Len(t) = n - 1}, v \in S}

Samples == SeqsUpTo(Values, MaxLen)
Queries == SeqsUpTo(Values, MaxQLen)

\* ------------------------------------------------------------- arithmetic
Abs(a) == IF a < 0 THEN -a ELSE a

RECURSIVE GCD(_, _)
GCD(a, b) == IF b = 0 THEN a ELSE GCD(b, a % b)

RECURSIVE Pow(_, _)
Pow(a, c) == IF c = 0 THEN 1 ELSE a * Pow(a, c - 1)

\* Rationals in lowest terms, for probabilities and variances.
Rat(a, b) == LET g == GCD(Abs(a), Abs(b)) IN [num |-> a \div g, den |-> b \div g]
RatAdd(r, s) == Rat(r.num * s.den + s.num * r.den, r.den * s.den)
RatLess(r, s) == r.num * s.den < s.num * r.den
RatMax(r, s) == IF RatLess(r, s) THEN s ELSE r

\* np.log(a / b) for a >= 0, b > 0.
NegInf == [num |-> 0, den |-> 1]
Zero == [num |-> 1, den |-> 1]
Log(a, b) == IF a = 0 THEN NegInf ELSE Rat(a, b)
\* -np.log(p) of a finite positive p.
NegLog(p) == Log(p.den, p.num)
\* u + v; -inf absorbs every finite value.
Add(u, v) == IF u.num = 0 \/ v.num = 0 THEN NegInf ELSE Rat(u.num * v.num, u.den * v.den)
\* -u of a finite u.
Neg(u) == [num |-> u.den, den |-> u.num]
\* u * c for an integer c > 0.
Times(u, c) == IF u.num = 0 THEN NegInf ELSE Rat(Pow(u.num, c), Pow(u.den, c))

IsFinite(u) == u.num > 0
IsNonNeg(u) == u.num >= u.den

RECURSIVE SumLog(_, _)
\* (f[1] + ... + f[n]) of a sequence of lengths.
SumLog(f, n) == IF n = 0 THEN Zero ELSE Add(SumLog(f, n - 1), f[n])

RECURSIVE SumInt(_, _)
SumInt(f, n) == IF n = 0 THEN 0 ELSE SumInt(f, n - 1) + f[n]

RECURSIVE SumRat(_, _)
SumRat(f, n) == IF n = 0 THEN Rat(0, 1) ELSE RatAdd(SumRat(f, n - 1), f[n])

\* ------------------------------------------------------------------ numpy
Range(s) == {s[i] : i \in DOMAIN s}

RECURSIVE SortedSeq_Desc(_)
\* SortedSeq with the order reversed.
SortedSeq_Desc(S) ==
    IF S = {} THEN <<>>
    ELSE LET m == CHOOSE a \in S : \A b \in S : b <= a
         IN  <<m>> \o SortedSeq_Desc(S \ {m})

RECURSIVE SortedSeq(_)
SortedSeq(S) ==
    IF S = {} THEN <<>>
    ELSE LET m == CHOOSE a \in S : \A b \in S : a <= b
         IN  <<m>> \o SortedSeq(S \ {m})

\* np.unique(x, return_counts=True): the sorted distinct values and how often
\* each occurs.
np_unique(x) ==
    LET vals == SortedSeq(Range(x))
    IN  [vals |-> vals,
         cnts |-> [i \in DOMAIN vals |-> Cardinality({j \in DOMAIN x : x[j] = vals[i]})]]

\* np.searchsorted(a, v) (side="left"): the number of entries of the sorted a
\* below v, as a 0-based insertion index.
np_searchsorted(a, v) == Cardinality({i \in DOMAIN a : a[i] < v})

\* dict(zip(keys, vals)): a later pair overrides an earlier one with the same key.
dict_zip(keys, vals) ==
    [k \in Range(keys) |->
        vals[CHOOSE i \in DOMAIN keys : keys[i] = k /\ \A j \in DOMAIN keys : keys[j] = k => j <= i]]

\* --------------------------------------------------------- MultinomialMdl
\* MultinomialMdl.__init__ without the branch for a single unique value.
MultinomialMdl_SumOnly(x) ==
    LET n  == Len(x)
        u  == np_unique(x)
        ps == [i \in DOMAIN u.vals |-> Rat(u.cnts[i], n)]
        terms == [i \in DOMAIN u.vals |-> Times(NegLog(ps[i]), u.cnts[i])]
    IN  [_n |-> n,
         _n_uniq |-> Len(u.vals),
         _uniq_vals |-> u.vals,
         _uniq_val_cnts |-> u.cnts,
         _uniq_val_ps |-> ps,
         _uniq_val_p_lut |-> dict_zip(u.vals, ps),
         _mdl |-> SumLog(terms, Len(terms))]

\* MultinomialMdl.__init__: the fitted fields (self._x is held apart, see Fit).
MultinomialMdl(x) ==
    LET n  == Len(x)
        u  == np_unique(x)
        ps == [i \in DOMAIN u.vals |-> Rat(u.cnts[i], n)]
        terms == [i \in DOMAIN u.vals |-> Times(NegLog(ps[i]), u.cnts[i])]
    IN  [_n |-> n,
         _n_uniq |-> Len(u.vals),
         _uniq_vals |-> u.vals,
         _uniq_val_cnts |-> u.cnts,
         _uniq_val_ps |-> ps,
         _uniq_val_p_lut |-> dict_zip(u.vals, ps),
         _mdl |-> IF Len(u.vals) > 1 THEN SumLog(terms, Len(terms))
                  ELSE IF Len(u.vals) = 1 THEN Log(n, 1)
                  ELSE Zero]

\* adjescent_p taking the left neighbour on a tie.
adjescent_p_TieLeft(m, uval) ==
    LET uind == np_searchsorted(m._uniq_vals, uval)
    IN  IF uind <= 0 THEN m._uniq_val_ps[1]
        ELSE IF uind >= m._n_uniq THEN m._uniq_val_ps[m._n_uniq]
        ELSE LET l_diff == Abs(m._uniq_vals[uind] - uval)
                 r_diff == Abs(m._uniq_vals[uind + 1] - uval)
             IN  IF l_diff <= r_diff THEN m._uniq_val_ps[uind]
                 ELSE m._uniq_val_ps[uind + 1]

\* adjescent_p taking the smallest probability below the fitted values and the
\* largest above them.
adjescent_p_Extreme(m, uval) ==
    LET uind == np_searchsorted(m._uniq_vals, uval)
        P == Range(m._uniq_val_ps)
    IN  IF uind <= 0 THEN CHOOSE p \in P : \A r \in P : ~RatLess(r, p)
        ELSE IF uind >= m._n_uniq THEN CHOOSE p \in P : \A r \in P : ~RatLess(p, r)
        ELSE LET l_diff == Abs(m._uniq_vals[uind] - uval)
                 r_diff == Abs(m._uniq_vals[uind + 1] - uval)
             IN  IF l_diff < r_diff THEN m._uniq_val_ps[uind]
                 ELSE IF l_diff > r_diff THEN m._uniq_val_ps[uind + 1]
                 ELSE RatMax(m._uniq_val_ps[uind], m._uniq_val_ps[uind + 1])

\* The probability encode picks for a query value absent from the lookup when
\* use_adjescent_when_absent is set (lines 128-150).
adjescent_p(m, uval) ==
    LET uind == np_searchsorted(m._uniq_vals, uval)
    IN  IF uind <= 0 THEN m._uniq_val_ps[1]
        ELSE IF uind >= m._n_uniq THEN m._uniq_val_ps[m._n_uniq]
        ELSE LET l_diff == Abs(m._uniq_vals[uind] - uval)
                 r_diff == Abs(m._uniq_vals[uind + 1] - uval)
             IN  IF l_diff < r_diff THEN m._uniq_val_ps[uind]
                 ELSE IF l_diff > r_diff THEN m._uniq_val_ps[uind + 1]
                 ELSE RatMax(m._uniq_val_ps[uind], m._uniq_val_ps[uind + 1])

\* np.log(np.max(np.abs(qx) * 2)) of a non-empty query (line 117).
unif_q_val_mdl(qx) ==
    LET a == {Abs(qx[i]) * 2 : i \in DOMAIN qx}
        mx == CHOOSE v \in a : \A w \in a : w <= v
    IN  Log(mx, Den)

\* The cost of one distinct query value (lines 125-155).
uval_mdl(m, qx, uval, use_adjescent_when_absent) ==
    IF uval \in DOMAIN m._uniq_val_p_lut
    THEN NegLog(m._uniq_val_p_lut[uval])
    ELSE IF use_adjescent_when_absent
         THEN NegLog(adjescent_p(m, uval))
         ELSE unif_q_val_mdl(qx)

\* MultinomialMdl.encode(qx, use_adjescent_when_absent).
encode(m, qx, use_adjescent_when_absent) ==
    IF Len(qx) = 0 THEN Zero
    ELSE IF m._n = 0 THEN Times(unif_q_val_mdl(qx), Len(qx))
    ELSE LET q == np_unique(qx)
             costs == [i \in DOMAIN q.vals |->
                          Times(uval_mdl(m, qx, q.vals[i], use_adjescent_when_absent), q.cnts[i])]
         IN  SumLog(costs, Len(costs))

\* ---------------------------------------------------------------- GKdeMdl
None == <<>>
Some(v) == <<v>>

\* The bandwidth rules a caller may name; scipy.stats.gaussian_kde rejects a
\* string that is neither "scott" nor "silverman" with a ValueError.
BwMethods == {"silverman", "scott", "bogus"}

\* Stand-ins for the density the fitted kernel reports at a training point
\* (a positive real the model does not compute): below and above 1.
KdeDensities == {Rat(1, 2), Rat(3, 1)}

\* (x * 100).astype(int): scale by 100 and truncate towards zero (line 201).
QuantScale == 100
Trunc(a, b) == IF a >= 0 THEN a \div b ELSE -((-a) \div b)
\* quantize without the scaling by 100.
quantize_NoScale(x) == [i \in DOMAIN x |-> Trunc(x[i], Den)]
quantize(x) == [i \in DOMAIN x |-> Trunc(x[i] * QuantScale, Den)]

\* x.std(ddof=1), kept as its square, the sample variance
\* (n * sum(x^2) - sum(x)^2) / (n * (n - 1)) in units of 1 / Den^2; nan when n < 2.
std_ddof1(x) ==
    LET n == Len(x)
        s1 == SumInt(x, n)
        s2 == SumInt([i \in DOMAIN x |-> x[i] * x[i]], n)
    IN  IF n < 2 THEN [num |-> 0, den |-> 0]
        ELSE Rat(n * s2 - s1 * s1, n * (n - 1))

\* GKdeMdl.gaussian_kde_logdens(x, bandwidth_method, ret_kernel=True) on a 1-D
\* x.  scipy.stats.gaussian_kde raises on an unknown bandwidth rule, on fewer
\* than two points and on a sample of zero variance (singular covariance).
\* dens is the density the kernel reports at the training points.
gaussian_kde_logdens(x, bandwidth_method, dens) ==
    IF \/ bandwidth_method \notin {"silverman", "scott"}
       \/ Len(x) < 2
       \/ Cardinality(Range(x)) < 2
    THEN [raised |-> TRUE, logdens |-> <<>>, kde |-> None]
    ELSE [raised |-> FALSE,
          logdens |-> [i \in DOMAIN x |-> Log(dens.num, dens.den)],
          kde |-> Some([factor |-> [rule |-> bandwidth_method, n |-> Len(x)]])]

\* _kde_mdl whose failure branch leaves the bandwidth factor set.
_kde_mdl_KeepFactor(x, bw_method, dens) ==
    IF Len(x) = 0
    THEN [kde_mdl |-> Zero, _bw_factor |-> None, _kde |-> None, _logdens |-> None,
          fits |-> 0, fallbacks |-> 0, failed |-> FALSE, raised |-> FALSE]
    ELSE LET r == gaussian_kde_logdens(x, bw_method, dens)
         IN  IF ~r.raised
             THEN [kde_mdl |-> Add(Neg(SumLog(r.logdens, Len(r.logdens))), Log(2, 1)),
                   _bw_factor |-> Some(r.kde[1].factor),
                   _kde |-> r.kde,
                   _logdens |-> Some(r.logdens),
                   fits |-> 1, fallbacks |-> 0, failed |-> FALSE, raised |-> FALSE]
             ELSE [kde_mdl |-> MultinomialMdl(quantize(x))._mdl,
                   _bw_factor |-> Some([rule |-> bw_method, n |-> Len(x)]),
                   _kde |-> None, _logdens |-> None,
                   fits |-> 1, fallbacks |-> 1, failed |-> TRUE, raised |-> FALSE]

\* GKdeMdl._kde_mdl(): the fields it sets and the value it returns.  fits and
\* fallbacks count the calls of gaussian_kde_logdens and of the multinomial
\* fallback; failed tells whether the fit raised, raised whether an exception
\* leaves the method.
_kde_mdl(x, bw_method, dens) ==
    IF Len(x) = 0
    THEN [kde_mdl |-> Zero, _bw_factor |-> None, _kde |-> None, _logdens |-> None,
          fits |-> 0, fallbacks |-> 0, failed |-> FALSE, raised |-> FALSE]
    ELSE LET r == gaussian_kde_logdens(x, bw_method, dens)
         IN  IF ~r.raised
             THEN [kde_mdl |-> Add(Neg(SumLog(r.logdens, Len(r.logdens))), Log(2, 1)),
                   _bw_factor |-> Some(r.kde[1].factor),
                   _kde |-> r.kde,
                   _logdens |-> Some(r.logdens),
                   fits |-> 1, fallbacks |-> 0, failed |-> FALSE, raised |-> FALSE]
             ELSE [kde_mdl |-> MultinomialMdl(quantize(x))._mdl,
                   _bw_factor |-> None, _kde |-> None, _logdens |-> None,
                   fits |-> 1, fallbacks |-> 1, failed |-> TRUE, raised |-> FALSE]

\* GKdeMdl.__init__(x, kde_bw_method) for a 1-D x held in array object xref:
\* self._x is that same object, not a copy.
GKdeMdl(xref, x, kde_bw_method, dens) ==
    LET r == _kde_mdl(x, kde_bw_method, dens)
    IN  [kind |-> "gk", _x |-> xref, _n |-> Len(x), _bw_method |-> kde_bw_method,
         _mdl |-> r.kde_mdl, _bw_factor |-> r._bw_factor, _kde |-> r._kde,
         _logdens |-> r._logdens,
         fits |-> r.fits, fallbacks |-> r.fallbacks, failed |-> r.failed,
         raised |-> r.raised]

\* GKdeMdl.bandwidth, read with the array objects as they are in h.
gk_bandwidth(g, h) ==
    IF g._bw_factor = None THEN None
    ELSE Some([factor |-> g._bw_factor[1], std |-> std_ddof1(h[g._x])])

\* ----------------------------------------------------------- ZeroIGKdeMdl
\* x[np.nonzero(x)]: the non-zero entries, in order, as a new array.
nonzero(x) == SelectSeq(x, LAMBDA v : v # 0)

\* _compute_zero_indicator_mdl with the two Bernoulli terms' counts swapped.
_compute_zero_indicator_mdl_Swapped(n, k) ==
    IF n = 0 THEN Zero
    ELSE IF k = n \/ k = 0 THEN Log(3, 1)
    ELSE Add(Add(Log(3, 1), Neg(Times(Log(k, n), n - k))),
             Neg(Times(Log(n - k, n), k)))

\* _compute_zero_indicator_mdl without the branch for the empty sample.
_compute_zero_indicator_mdl_NoEmpty(n, k) ==
    IF k = n \/ k = 0 THEN Log(3, 1)
    ELSE Add(Add(Log(3, 1), Neg(Times(Log(k, n), k))),
             Neg(Times(Log(n - k, n), n - k)))

\* ZeroIGKdeMdl._compute_zero_indicator_mdl().
_compute_zero_indicator_mdl(n, k) ==
    IF n = 0 THEN Zero
    ELSE IF k = n \/ k = 0 THEN Log(3, 1)
    ELSE Add(Add(Log(3, 1), Neg(Times(Log(k, n), k))),
             Neg(Times(Log(n - k, n), n - k)))

\* ZeroIGKdeMdl.__init__(x, kde_bw_method) for a 1-D x held in array object
\* xref; the non-zero entries go to the new array object nzref.
ZeroIGKdeMdl(xref, nzref, x, kde_bw_method, dens) ==
    LET nz  == nonzero(x)
        zi  == _compute_zero_indicator_mdl(Len(x), Len(nz))
        obj == GKdeMdl(nzref, nz, kde_bw_method, dens)
    IN  [kind |-> "zig", _x |-> xref, _n |-> Len(x), _x_nonzero |-> nzref,
         _k |-> Len(nz), _bw_method |-> kde_bw_method, _zi_mdl |-> zi,
         _kde_mdl_obj |-> obj, _kde_mdl |-> obj._mdl,
         _mdl |-> Add(zi, obj._mdl)]

\* ------------------------------------------------------------ the machine
\* heap:   the array objects, by name: "arg" is the array the caller passes to
\*         the constructor (and keeps), "self_x" the copy npfloat_1d makes,
\*         "x_nonzero" the array of non-zero entries, "ret" the array an
\*         x / x_nonzero accessor returned last.
\* obj:    the encoder constructed, [kind |-> "none"] before construction.
\* last:   the last encode call: its arguments and the score it returned.
\* first:  what x, mdl and bandwidth read right after construction.
\* writes: how many array writes the caller has made.
VARIABLES heap, obj, last, first, writes

vars == <<heap, obj, last, first, writes>>

Put(h, id, v) == [i \in DOMAIN h \cup {id} |-> IF i = id THEN v ELSE h[i]]

\* npfloat_1d(x): a new float array with the values of x.
npfloat_1d(x) == [i \in 1..Len(x) |-> x[i]]

\* The mdl property of each encoder.
mdl(o) == IF o.kind = "mn" THEN o.m._mdl ELSE o._mdl

\* The bandwidth property (MultinomialMdl has none).
bandwidth(o, h) ==
    IF o.kind = "gk" THEN gk_bandwidth(o, h)
    ELSE IF o.kind = "zig" THEN gk_bandwidth(o._kde_mdl_obj, h)
    ELSE None

\* The kde property.
kde(o) ==
    IF o.kind = "gk" THEN o._kde
    ELSE IF o.kind = "zig" THEN o._kde_mdl_obj._kde
    ELSE None

\* The x property: a copy of self._x as it is now.
x_copy(o, h) == npfloat_1d(h[o._x])

\* What a caller reads from the encoder.
Observe(o, h) == [x |-> x_copy(o, h), mdl |-> mdl(o), bandwidth |-> bandwidth(o, h)]

NoCall == [op |-> "none", qx |-> <<>>, adj |-> FALSE, qmdl |-> Zero]

Init ==
    /\ heap = <<>>
    /\ obj = [kind |-> "none"]
    /\ last = NoCall
    /\ first = [x |-> <<>>, mdl |-> Zero, bandwidth |-> None]
    /\ writes = 0

\* m = MultinomialMdl(x)
FitMultinomial(x) ==
    /\ obj.kind = "none"
    /\ LET h == Put(Put(heap, "arg", x), "self_x", npfloat_1d(x))
           o == [kind |-> "mn", _x |-> "self_x", m |-> MultinomialMdl(x)]
       IN  /\ heap' = h
           /\ obj' = o
           /\ first' = Observe(o, h)
    /\ UNCHANGED <<last, writes>>

\* g = GKdeMdl(x, kde_bw_method)
FitGKde(x, kde_bw_method, dens) ==
    /\ obj.kind = "none"
    /\ LET h == Put(heap, "arg", x)
           o == GKdeMdl("arg", x, kde_bw_method, dens)
       IN  /\ heap' = h
           /\ obj' = o
           /\ first' = Observe(o, h)
    /\ UNCHANGED <<last, writes>>

\* z = ZeroIGKdeMdl(x, kde_bw_method)
FitZeroIG(x, kde_bw_method, dens) ==
    /\ obj.kind = "none"
    /\ LET h == Put(Put(heap, "arg", x), "x_nonzero", nonzero(x))
           o == ZeroIGKdeMdl("arg", "x_nonzero", x, kde_bw_method, dens)
       IN  /\ heap' = h
           /\ obj' = o
           /\ first' = Observe(o, h)
    /\ UNCHANGED <<last, writes>>

\* m.encode(qx, use_adjescent_when_absent); one call is recorded per run (the
\* call assigns to nothing of the encoder, so a later call starts from the
\* same fitted state).
Encode(qx, adj) ==
    /\ obj.kind = "mn"
    /\ last.op = "none"
    /\ last' = [op |-> "encode", qx |-> qx, adj |-> adj, qmdl |-> encode(obj.m, npfloat_1d(qx), adj)]
    /\ UNCHANGED <<heap, obj, first, writes>>

\* r = enc.x
ReadX ==
    /\ obj.kind # "none"
    /\ heap' = Put(heap, "ret", x_copy(obj, heap))
    /\ UNCHANGED <<obj, last, first, writes>>

\* r = z.x_nonzero
ReadXNonzero ==
    /\ obj.kind = "zig"
    /\ heap' = Put(heap, "ret", npfloat_1d(heap[obj._x_nonzero]))
    /\ UNCHANGED <<obj, last, first, writes>>

\* The caller writes v into entry i of the array it passed to the constructor.
WriteArg(i, v) ==
    /\ obj.kind # "none"
    /\ writes < MaxWrites
    /\ i \in DOMAIN heap["arg"]
    /\ heap["arg"][i] # v
    /\ heap' = [heap EXCEPT !["arg"][i] = v]
    /\ writes' = writes + 1
    /\ UNCHANGED <<obj, last, first>>

\* The caller writes v into entry i of the array an accessor returned.
WriteRet(i, v) ==
    /\ obj.kind # "none"
    /\ writes < MaxWrites
    /\ "ret" \in DOMAIN heap
    /\ i \in DOMAIN heap["ret"]
    /\ heap["ret"][i] # v
    /\ heap' = [heap EXCEPT !["ret"][i] = v]
    /\ writes' = writes + 1
    /\ UNCHANGED <<obj, last, first>>

Fit ==
    \/ \E x \in Samples : FitMultinomial(x)
    \/ \E x \in Samples, b \in BwMethods, d \in KdeDensities : FitGKde(x, b, d)
    \/ \E x \in Samples, b \in BwMethods, d \in KdeDensities : FitZeroIG(x, b, d)

Call == \E qx \in Queries, adj \in BOOLEAN : Encode(qx, adj)

Next ==
    \/ Fit
    \/ Call
    \/ ReadX
    \/ ReadXNonzero
    \/ \E i \in 1..MaxLen, v \in Values : WriteArg(i, v)
    \/ \E i \in 1..MaxLen, v \in Values : WriteRet(i, v)

Spec == Init /\ [][Next]_vars

\* Construction and encode alone, for the claims about the fitted values.
NextFit == Fit \/ Call

SpecFit == Init /\ [][NextFit]_vars

\* ------------------------------------------------------------- the claims
\* Helpers of the statements below, written from the definitions of the
\* quantities and not from the encoders' code.
Count(x, u) == Cardinality({j \in DOMAIN x : x[j] = u})
MinOf(S) == CHOOSE a \in S : \A b \in S : a <= b
MaxOf(S) == CHOOSE a \in S : \A b \in S : b <= a
Fitted(k) == obj.kind = k
Arg == heap["arg"]
Encoded == last.op = "encode"

RECURSIVE SelfCost(_, _)
\* sum over the values u of S of -log(c_u / n) * c_u
SelfCost(S, x) ==
    IF S = {} THEN Zero
    ELSE LET u == CHOOSE w \in S : TRUE
             c == Count(x, u)
         IN  Add(Times(Log(Len(x), c), c), SelfCost(S \ {u}, x))

\* The probability of the fitted neighbour nearer to v, the higher of the two
\* on a tie, for v strictly between two fitted values.
InteriorP(x, v) ==
    LET l == MaxOf({u \in Range(x) : u < v})
        r == MinOf({u \in Range(x) : u > v})
        pl == Rat(Count(x, l), Len(x))
        pr == Rat(Count(x, r), Len(x))
    IN  IF v - l < r - v THEN pl
        ELSE IF r - v < v - l THEN pr
        ELSE IF RatLess(pl, pr) THEN pr ELSE pl

\* The probability of the smallest fitted value for v below it, of the largest
\* fitted value for v above it.
ExteriorP(x, v) ==
    IF v < MinOf(Range(x)) THEN Rat(Count(x, MinOf(Range(x))), Len(x))
    ELSE Rat(Count(x, MaxOf(Range(x))), Len(x))

\* The smallest fitted probability for v below the fitted values, the largest
\* fitted probability for v above them.
ExtremeP(x, v) ==
    LET cs == {Count(x, u) : u \in Range(x)}
    IN  IF v < MinOf(Range(x)) THEN Rat(MinOf(cs), Len(x)) ELSE Rat(MaxOf(cs), Len(x))

IsInterior(x, v) == v \notin Range(x) /\ MinOf(Range(x)) < v /\ v < MaxOf(Range(x))
IsExterior(x, v) == v < MinOf(Range(x)) \/ v > MaxOf(Range(x))

ProbBy(rule, x, v) ==
    IF v \in Range(x) THEN Rat(Count(x, v), Len(x))
    ELSE IF rule = "interior" THEN InteriorP(x, v)
    ELSE IF rule = "exterior" THEN ExteriorP(x, v)
    ELSE ExtremeP(x, v)

RECURSIVE QueryCost(_, _, _, _)
\* sum over the values v of S of -log(p_v) * (count of v in q)
QueryCost(rule, S, x, q) ==
    IF S = {} THEN Zero
    ELSE LET v == CHOOSE w \in S : TRUE
             p == ProbBy(rule, x, v)
         IN  Add(Times(Log(p.den, p.num), Count(q, v)), QueryCost(rule, S \ {v}, x, q))

\* An adjacency-mode encode call on a non-empty fit.
AdjCall == Fitted("mn") /\ Encoded /\ last.adj /\ Len(Arg) > 0 /\ Len(last.qx) > 0

\* C1: the multinomial self-cost of a non-empty sample is log(n) when it has one
\* distinct value and the sum of -log(p_i) * c_i over its distinct values
\* otherwise.
C1_SelfCost ==
    (Fitted("mn") /\ Len(Arg) >= 1) =>
        mdl(obj) = IF Cardinality(Range(Arg)) = 1 THEN Log(Len(Arg), 1)
                   ELSE SelfCost(Range(Arg), Arg)

C1_Witness ==
    /\ Fitted("mn")
    /\ Arg = <<1, 1, 2>>
    /\ mdl(obj) = Log(27, 4)

\* C2: the zero-indicator cost is 0 for n = 0, log(3) for k = 0 or k = n, and
\* log(3) - k log(k/n) - (n-k) log(1 - k/n) otherwise (that is
\* log(3 n^n / (k^k (n-k)^(n-k)))); the total is that cost plus the cost of a
\* GKdeMdl fitted on the non-zero entries, in order, with the same rule.
C2_ZeroInflated ==
    Fitted("zig") =>
        LET n  == Len(Arg)
            nz == [j \in 1..Cardinality({i \in DOMAIN Arg : Arg[i] # 0}) |->
                      Arg[CHOOSE i \in DOMAIN Arg :
                              /\ Arg[i] # 0
                              /\ Cardinality({h \in 1..i : Arg[h] # 0}) = j]]
            k  == Len(nz)
        IN  /\ obj._zi_mdl = IF n = 0 THEN Zero
                             ELSE IF k = 0 \/ k = n THEN Log(3, 1)
                             ELSE Log(3 * Pow(n, n), Pow(k, k) * Pow(n - k, n - k))
            /\ heap[obj._x_nonzero] = nz
            /\ \E d \in KdeDensities :
                  /\ obj._kde_mdl_obj = GKdeMdl(obj._x_nonzero, nz, obj._bw_method, d)
                  /\ mdl(obj) = Add(obj._zi_mdl, GKdeMdl(obj._x_nonzero, nz, obj._bw_method, d)._mdl)

C2_Witness ==
    /\ Fitted("zig")
    /\ Arg = <<0, 1, 2>>
    /\ obj._bw_method = "silverman"
    /\ obj._zi_mdl = Log(81, 4)
    /\ obj._kde_mdl_obj.failed = FALSE

\* Whether the kernel-density fit of x under rule b fails.
FitFails(x, b) == b \notin {"silverman", "scott"} \/ Len(x) < 2 \/ \A i, j \in DOMAIN x : x[i] = x[j]

\* C3: when the fit of a non-empty sample fails, GKdeMdl raises nothing, fits
\* once, falls back once, and its mdl is the multinomial self-cost of the
\* sample scaled by 100 and truncated; n copies of a non-zero value cost log(n).
C3_Fallback ==
    (Fitted("gk") /\ Len(Arg) > 0) =>
        /\ obj.failed = FitFails(Arg, obj._bw_method)
        /\ obj.failed =>
              /\ ~obj.raised
              /\ obj.fits = 1
              /\ obj.fallbacks = 1
              /\ mdl(obj) = MultinomialMdl([i \in DOMAIN Arg |-> (Arg[i] * 100) \div Den])._mdl
        /\ ((\A i \in DOMAIN Arg : Arg[i] = Arg[1]) /\ Arg[1] # 0) =>
              obj.failed /\ mdl(obj) = Log(Len(Arg), 1)

C3_Witness ==
    /\ Fitted("gk")
    /\ Arg = <<0, 1>>
    /\ obj.failed
    /\ obj.fallbacks = 1
    /\ mdl(obj) = Log(2, 1)

\* C4: in adjacency mode on a non-empty fit, a query whose values are all
\* fitted or strictly between two fitted values costs, per value, -log of the
\* fitted probability, or of the nearer neighbour's probability (the higher of
\* the two on a tie); the result is finite, so the uniform fallback is not used.
C4_Interior ==
    (AdjCall /\ \A i \in DOMAIN last.qx : ~IsExterior(Arg, last.qx[i])) =>
        /\ last.qmdl = QueryCost("interior", Range(last.qx), Arg, last.qx)
        /\ IsFinite(last.qmdl)

C4_Witness ==
    /\ AdjCall
    /\ Arg = <<1, 3, 3>>
    /\ last.qx = <<2>>
    /\ last.qmdl = Log(3, 2)

\* C5 as stated: a query value below the fitted minimum costs -log of the
\* smallest fitted probability, one above the fitted maximum -log of the largest.
C5_Original ==
    (AdjCall /\ \A i \in DOMAIN last.qx : ~IsInterior(Arg, last.qx[i])) =>
        last.qmdl = QueryCost("extreme", Range(last.qx), Arg, last.qx)

\* C5 as amended: a query value below the fitted minimum costs -log of the
\* probability of the smallest fitted value, one above the fitted maximum -log
\* of the probability of the largest fitted value.
C5_Exterior ==
    (AdjCall /\ \A i \in DOMAIN last.qx : ~IsInterior(Arg, last.qx[i])) =>
        last.qmdl = QueryCost("exterior", Range(last.qx), Arg, last.qx)

C5_Witness ==
    /\ AdjCall
    /\ Arg = <<1, 1, 2>>
    /\ last.qx = <<0, 3>>
    /\ last.qmdl = Log(9, 2)

\* C6: after construction, whatever the caller writes or calls, x, mdl and
\* bandwidth read as they did right after construction.
C6_Frame == (obj.kind # "none") => Observe(obj, heap) = first

\* C7: every score encode returns is finite and non-negative.
C7_NonNegative == Encoded => (IsFinite(last.qmdl) /\ IsNonNeg(last.qmdl))

\* C8: a multinomial fit of a non-empty sample holds strictly increasing unique
\* values, positive counts summing to n, probabilities c_i / n summing to 1 and
\* a lookup with exactly one entry per unique value, mapping it to its p_i.
C8_FittedModel ==
    (Fitted("mn") /\ Len(Arg) > 0) =>
        LET m == obj.m
            n == Len(Arg)
            I == 1..m._n_uniq
        IN  /\ m._n = n
            /\ DOMAIN m._uniq_vals = I /\ DOMAIN m._uniq_val_cnts = I /\ DOMAIN m._uniq_val_ps = I
            /\ \A i, j \in I : i < j => m._uniq_vals[i] < m._uniq_vals[j]
            /\ {m._uniq_vals[i] : i \in I} = Range(Arg)
            /\ \A i \in I : m._uniq_val_cnts[i] > 0 /\ m._uniq_val_cnts[i] = Count(Arg, m._uniq_vals[i])
            /\ SumInt(m._uniq_val_cnts, m._n_uniq) = n
            /\ \A i \in I : m._uniq_val_ps[i].num * n = m._uniq_val_cnts[i] * m._uniq_val_ps[i].den
            /\ SumRat(m._uniq_val_ps, m._n_uniq) = [num |-> 1, den |-> 1]
            /\ DOMAIN m._uniq_val_p_lut = {m._uniq_vals[i] : i \in I}
            /\ \A i \in I : m._uniq_val_p_lut[m._uniq_vals[i]] = m._uniq_val_ps[i]

C8_Witness ==
    /\ Fitted("mn")
    /\ Arg = <<3, 0, 3>>
    /\ obj.m._uniq_vals = <<0, 3>>
    /\ obj.m._uniq_val_cnts = <<1, 2>>

\* C9: every encoder fitted on the empty vector has mdl 0 (ZeroIGKdeMdl with
\* zi_mdl and kde_mdl both 0), and encode of the empty query returns 0.
C9_Empty ==
    /\ (obj.kind # "none" /\ Arg = <<>>) => mdl(obj) = Zero
    /\ (Fitted("zig") /\ Arg = <<>>) => (obj._zi_mdl = Zero /\ obj._kde_mdl = Zero)
    /\ (Encoded /\ last.qx = <<>>) => last.qmdl = Zero

C9_Witness ==
    /\ Fitted("mn")
    /\ Arg = <<>>
    /\ mdl(obj) = Zero
    /\ Encoded
    /\ last.qx = <<>>
    /\ last.qmdl = Zero

\* C10: kde and bandwidth of a GKdeMdl are both unavailable exactly when the
\* sample is empty or the fit failed; ZeroIGKdeMdl reports those of its inner
\* GKdeMdl on the non-zero entries.
C10_Availability ==
    /\ Fitted("gk") =>
          /\ (kde(obj) = None) <=> (Len(Arg) = 0 \/ FitFails(Arg, obj._bw_method))
          /\ (bandwidth(obj, heap) = None) <=> (kde(obj) = None)
    /\ Fitted("zig") =>
          LET nz == SelectSeq(Arg, LAMBDA v : v # 0)
          IN  /\ kde(obj) = obj._kde_mdl_obj._kde
              /\ bandwidth(obj, heap) = gk_bandwidth(obj._kde_mdl_obj, heap)
              /\ (kde(obj) = None) <=> (Len(nz) = 0 \/ FitFails(nz, obj._bw_method))
              /\ (bandwidth(obj, heap) = None) <=> (kde(obj) = None)

C10_Witness ==
    /\ Fitted("gk")
    /\ Arg = <<1, 2>>
    /\ kde(obj) # None
    /\ bandwidth(obj, heap) = Some([factor |-> [rule |-> "scott", n |-> 2], std |-> Rat(1, 2)])

====
